---- MODULE Spec2Model ----
(***************************************************************************)
(* Model of LLAMAStreamer (src/daq2lh5/llama/llama_streamer.py): the       *)
(* streaming demultiplexer that opens a llamaDAQ file, reads its header    *)
(* and then reads one variable-length event packet per read_packet() call. *)
(*                                                                         *)
(* The file on disk is a sequence of bytes.  The header decoder, the event *)
(* decoder and the DataStreamer base class are collaborators whose code is *)
(* not part of llama_streamer.py; they are modelled at their interface.    *)
(***************************************************************************)
EXTENDS Integers, Sequences, FiniteSets, TLC

\* ---------------------------------------------------------------- bounds
MaxWords == 2        \* largest event_length (32-bit words) of a channel
MaxBodyWords == 3    \* largest number of whole 32-bit words after the header
MaxHdrLen == 2       \* largest header length in bytes
MaxBufferSize == 2   \* largest buffer_size handed to open_stream
MaxCalls == MaxBodyWords + 2   \* read_packet calls modelled per open stream

Channels == {1, 257}   \* channels a header may configure

\* leading / payload words that occur in the modelled files (little endian):
\* channel 1, channel 257 with bits 16.. set, channel 1 with format bits 1
WordVals == { <<16, 0, 0, 0>>, <<16, 16, 1, 0>>, <<17, 0, 0, 0>> }

\* what is left of a word when the file was cut inside it
Tails == { <<>>, <<16>>, <<16, 0>>, <<16, 0, 0>> }

Min(a, b) == IF a < b THEN a ELSE b

RECURSIVE WordSeqs(_)
WordSeqs(k) ==
    IF k = 0 THEN { <<>> }
    ELSE { w \o s : w \in WordVals, s \in WordSeqs(k - 1) }

Bodies == UNION { { s \o t : s \in WordSeqs(k), t \in Tails } : k \in 0..MaxBodyWords }

ChannelConfig == [event_length : 1..MaxWords, format_bits : {0}]

ConfigTables == UNION { [D -> ChannelConfig] : D \in SUBSET Channels }

HeaderBytes(n) == [i \in 1..n |-> 255]

\* a file: its bytes, and what the header decoder makes of its header
NoTable == [c \in {} |-> [event_length |-> 1, format_bits |-> 0]]
NoBuffers == [c \in {} |-> <<>>]

\* a file: its bytes, and what the header decoder makes of its header (a
\* header that does not parse yields no configuration table)
Files ==
    { [bytes |-> HeaderBytes(hl) \o b, hdr_len |-> hl, hdr_ok |-> TRUE, configs |-> c] :
        hl \in 1..MaxHdrLen, b \in Bodies, c \in ConfigTables }
    \cup
    { [bytes |-> HeaderBytes(hl) \o b, hdr_len |-> hl, hdr_ok |-> FALSE, configs |-> NoTable] :
        hl \in 1..MaxHdrLen, b \in Bodies }

VARIABLES
    file,            \* the file llama_filename names
    in_stream,       \* self.in_stream: "None" or "open"
    stream_pos,      \* in_stream.tell()
    n_bytes_read,    \* self.n_bytes_read
    packet_id,       \* self.packet_id
    any_full,        \* self.any_full
    channel_configs, \* self.header_decoder.get_channel_configs()
    event_rbkd,      \* self.event_rbkd: channel -> sequence of records
    buffer_size,     \* capacity of each buffer of event_rbkd
    position,        \* __read_bytes: position
    data1,           \* __read_bytes: data1
    peek_pos,        \* in_stream.tell() when the peek step (l.138-142) is over
    fch_id,          \* __read_bytes: fch_id
    packet,          \* __read_bytes: packet
    decoder_calls,   \* arguments of the decode_packet calls since open_stream
    last_op,         \* the method called last
    result,          \* what it returned or raised
    calls,           \* read_packet calls since the stream was opened
    fatal            \* a read_packet call since open_stream raised

vars == <<file, in_stream, stream_pos, n_bytes_read, packet_id, any_full,
          channel_configs, event_rbkd, buffer_size, position, data1, peek_pos,
          fch_id, packet, decoder_calls, last_op, result, calls, fatal>>

\* ------------------------------------------------------------ transport
\* in_stream.read(n) at position pos: at most n bytes, fewer at end of file
read(bytes, pos, n) == SubSeq(bytes, pos + 1, Min(pos + n, Len(bytes)))

\* ------------------------------------------------------- header decoder
\* decode_header: consumes the header and reports the bytes it consumed
decode_header(f) ==
    IF f.hdr_ok
    THEN [status |-> "ok", n_bytes_hdr |-> f.hdr_len, configs |-> f.configs]
    ELSE [status |-> "MalformedHeader", n_bytes_hdr |-> 0, configs |-> NoTable]

\* -------------------------------------------------------- event decoder
\* decode_packet: deposits one record in the buffer of fch_id and reports
\* whether that buffer is full; raises on a packet whose format bits do not
\* match the channel's configuration
decode_packet(pk, rbkd, pid, fch, cfgs, size) ==
    IF pk[1] % 16 # cfgs[fch].format_bits
    THEN [status |-> "MalformedEvent", rbkd |-> rbkd, full |-> FALSE]
    ELSE LET nb == [rbkd EXCEPT ![fch] = Append(@, [packet_id |-> pid, packet |-> pk])]
         IN  [status |-> "ok", rbkd |-> nb, full |-> Len(nb[fch]) >= size]

\* --------------------------------------------------------- __read_bytes
\* np.fromstring(data1, dtype=np.uint32)[0]
fromstring(d) == d[1] + 256 * d[2] + 65536 * d[3] + 16777216 * d[4]

\* the mask is left out
FchId_nomask(header_data_32) == header_data_32 \div 16

\* the mask keeps 8 bits instead of 12
FchId_mask8(header_data_32) == (header_data_32 \div 16) % 256

\* fch_id = (header_data_32[0] >> 4) & 0x00000fff
FchId(header_data_32) == (header_data_32 \div 16) % 4096

\* the comparison lets a full word count as a short read
ShortRead_le(d) == Len(d) <= 4

\* len(data1) < 4
ShortRead(d) == Len(d) < 4

\* words taken for 16-bit words
event_length_8_x2(event_length_32) == event_length_32 * 2

\* event_length_8 = event_length_32 * 4
event_length_8(event_length_32) == event_length_32 * 4

\* a packet of exactly the configured length counts as short
ShortPacket_le(pk, len8) == Len(pk) <= len8

\* only an empty read counts as short
ShortPacket_empty(pk, len8) == Len(pk) = 0

\* len(packet) < event_length_8
ShortPacket(pk, len8) == Len(pk) < len8

\* the seek is left out
SeekBack_none(pos_saved, pos_now) == pos_now

\* self.in_stream.seek(position) after the peek
SeekBack(pos_saved, pos_now) == pos_saved

\* the stream is put back at the start of the packet after the full read
PosAfterRead_stay(pos, pk) == pos

\* in_stream.tell() after packet = self.in_stream.read(event_length_8)
PosAfterRead(pos, pk) == pos + Len(pk)

\* __read_bytes on an open stream: what it returns or raises, its locals and
\* the stream position it leaves
read_bytes(bytes, pos, cfgs) ==
    LET d1 == read(bytes, pos, 4)
    IN  IF ShortRead(d1)
        THEN [ret |-> "None", position |-> pos, data1 |-> d1,
              peek_pos |-> pos + Len(d1), fch_id |-> -1, packet |-> <<>>,
              pos |-> pos + Len(d1)]
        ELSE LET back == SeekBack(pos, pos + Len(d1))
                 id == FchId(fromstring(d1))
             IN  IF id \notin DOMAIN cfgs
                 THEN [ret |-> "UnknownChannel", position |-> pos, data1 |-> d1,
                       peek_pos |-> back, fch_id |-> id, packet |-> <<>>,
                       pos |-> back]
                 ELSE LET len8 == event_length_8(cfgs[id].event_length)
                          pk == read(bytes, back, len8)
                      IN  [ret |-> IF ShortPacket(pk, len8) THEN "TruncatedPacket" ELSE "packet",
                           position |-> pos, data1 |-> d1, peek_pos |-> back,
                           fch_id |-> id, packet |-> pk, pos |-> PosAfterRead(back, pk)]

\* ---------------------------------------------------- read_packet counters
\* only the leading word is counted
n_bytes_read_after_word(n, pk) == n + 4

\* the counter is assigned instead of incremented
n_bytes_read_after_assign(n, pk) == Len(pk)

\* self.n_bytes_read += len(packet)
n_bytes_read_after(n, pk) == n + Len(pk)

\* the increment is applied twice
packet_id_after_twice(p) == p + 2

\* self.packet_id += 1
packet_id_after(p) == p + 1

\* the flag is assigned instead of or-ed
any_full_after_assign(a, full) == full

\* self.any_full |= self.event_decoder.decode_packet(...)
any_full_after(a, full) == a \/ full

\* the buffer-full flag is returned
ReturnValue_full(a) == IF a THEN "True" ELSE "False"

\* return True
ReturnValue(a) == "True"

\* ------------------------------------------------------ lifecycle guards
\* the check is left out
open_guard_off(s) == FALSE

\* open_stream: if self.in_stream is not None: raise
open_guard(s) == s # "None"

\* close_stream: if self.in_stream is None: raise
close_guard(s) == s = "None"

\* __read_bytes: if self.in_stream is None: raise
read_guard(s) == s = "None"

\* the handle is closed but kept
in_stream_after_close_kept(s) == s

\* close_stream: self.in_stream = None
in_stream_after_close(s) == "None"

\* ----------------------------------------------------------------- Init
Init ==
    /\ file \in Files
    /\ in_stream = "None"
    /\ stream_pos = 0
    /\ n_bytes_read = 0
    /\ packet_id = 0
    /\ any_full = FALSE
    /\ channel_configs = NoTable
    /\ event_rbkd = NoBuffers
    /\ buffer_size = 1
    /\ position = 0
    /\ data1 = <<>>
    /\ peek_pos = 0
    /\ fch_id = -1
    /\ packet = <<>>
    /\ decoder_calls = <<>>
    /\ last_op = "init"
    /\ result = "none"
    /\ calls = 0
    /\ fatal = FALSE

\* ---------------------------------------------------------- open_stream
open_stream ==
    \E size \in 1..MaxBufferSize :
        /\ last_op' = "open_stream"
        /\ UNCHANGED <<file, any_full, position, data1, peek_pos, fch_id, packet>>
        /\ IF open_guard(in_stream)
           THEN /\ result' = "AlreadyOpen"
                /\ UNCHANGED <<in_stream, stream_pos, n_bytes_read, packet_id,
                               channel_configs, event_rbkd, buffer_size,
                               decoder_calls, calls, fatal>>
           ELSE LET h == decode_header(file)
                IN  /\ in_stream' = "open"
                    /\ packet_id' = 0
                    /\ calls' = 0
                    /\ fatal' = FALSE
                    /\ decoder_calls' = <<>>
                    /\ IF h.status = "ok"
                       THEN /\ result' = "Opened"
                            /\ stream_pos' = h.n_bytes_hdr
                            /\ n_bytes_read' = 0 + h.n_bytes_hdr
                            /\ channel_configs' = h.configs
                            /\ event_rbkd' = [c \in DOMAIN h.configs |-> <<>>]
                            /\ buffer_size' = size
                       ELSE /\ result' = "MalformedHeader"
                            /\ stream_pos' \in 0..file.hdr_len
                            /\ n_bytes_read' = 0
                            /\ UNCHANGED <<channel_configs, event_rbkd, buffer_size>>

\* --------------------------------------------------------- close_stream
close_stream ==
    /\ last_op' = "close_stream"
    /\ UNCHANGED <<file, stream_pos, n_bytes_read, packet_id, any_full,
                   channel_configs, event_rbkd, buffer_size, position, data1,
                   peek_pos, fch_id, packet, decoder_calls, calls, fatal>>
    /\ IF close_guard(in_stream)
       THEN /\ result' = "NotOpen"
            /\ UNCHANGED in_stream
       ELSE /\ result' = "Closed"
            /\ in_stream' = in_stream_after_close(in_stream)

\* ---------------------------------------------------------- read_packet
read_packet ==
    /\ calls < MaxCalls
    /\ calls' = calls + 1
    /\ last_op' = "read_packet"
    /\ UNCHANGED <<file, in_stream, channel_configs, buffer_size>>
    /\ IF read_guard(in_stream)
       THEN /\ result' = "NoStreamOpen"
            /\ UNCHANGED <<stream_pos, n_bytes_read, packet_id, any_full,
                           event_rbkd, position, data1, peek_pos, fch_id,
                           packet, decoder_calls, fatal>>
       ELSE LET r == read_bytes(file.bytes, stream_pos, channel_configs)
            IN  /\ position' = r.position
                /\ data1' = r.data1
                /\ peek_pos' = r.peek_pos
                /\ fch_id' = r.fch_id
                /\ packet' = r.packet
                /\ stream_pos' = r.pos
                /\ IF r.ret = "None"
                   THEN /\ result' = "False"
                        /\ UNCHANGED <<n_bytes_read, packet_id, any_full,
                                       event_rbkd, decoder_calls, fatal>>
                   ELSE IF r.ret # "packet"
                   THEN /\ result' = r.ret
                        /\ fatal' = TRUE
                        /\ UNCHANGED <<n_bytes_read, packet_id, any_full,
                                       event_rbkd, decoder_calls>>
                   ELSE LET d == decode_packet(r.packet, event_rbkd,
                                               packet_id_after(packet_id),
                                               r.fch_id, channel_configs, buffer_size)
                        IN  /\ packet_id' = packet_id_after(packet_id)
                            /\ n_bytes_read' = n_bytes_read_after(n_bytes_read, r.packet)
                            /\ decoder_calls' = Append(decoder_calls,
                                   [packet_id |-> packet_id_after(packet_id), fch_id |-> r.fch_id,
                                    packet |-> r.packet])
                            /\ event_rbkd' = d.rbkd
                            /\ IF d.status = "ok"
                               THEN /\ any_full' = any_full_after(any_full, d.full)
                                    /\ result' = ReturnValue(any_full')
                                    /\ UNCHANGED fatal
                               ELSE /\ result' = d.status
                                    /\ fatal' = TRUE
                                    /\ UNCHANGED any_full

Next == open_stream \/ close_stream \/ read_packet

Spec == Init /\ [][Next]_vars

\* ---------------------------------------------------------- driver loop
\* the host opens the stream once and then calls read_packet() for as long
\* as it returns True
DriverOpen == last_op = "init" /\ open_stream

DriverRead ==
    /\ \/ (last_op = "open_stream" /\ result = "Opened")
       \/ (last_op = "read_packet" /\ result = "True")
    /\ read_packet

DriverNext == DriverOpen \/ DriverRead

DriverSpec == Init /\ [][DriverNext]_vars /\ WF_vars(DriverNext)

\* =================================================================
\* Reference reading of the file, used to state the properties
\* =================================================================

\* the bytes after the header
Body == SubSeq(file.bytes, file.hdr_len + 1, Len(file.bytes))

\* bits 4-15 of the little-endian word that starts b
LeadChannel(b) == (b[1] \div 16) + 16 * b[2]

\* the packets on the wire: b split by the configured lengths, as far as
\* whole packets of configured channels go
RECURSIVE WirePackets(_, _)
WirePackets(b, cfg) ==
    IF Len(b) < 4 THEN <<>>
    ELSE LET ch == LeadChannel(b)
         IN  IF ch \notin DOMAIN cfg THEN <<>>
             ELSE LET n == 4 * cfg[ch].event_length
                  IN  IF Len(b) < n THEN <<>>
                      ELSE <<[fch_id |-> ch, packet |-> SubSeq(b, 1, n)]>>
                           \o WirePackets(SubSeq(b, n + 1, Len(b)), cfg)

RECURSIVE SumLen(_)
SumLen(ps) == IF ps = <<>> THEN 0 ELSE Len(Head(ps).packet) + SumLen(Tail(ps))

Wire == WirePackets(Body, file.configs)

NumPackets == Len(Wire)

\* a header that parses, then whole well-formed packets of configured
\* channels, then nothing
ValidStream ==
    /\ file.hdr_ok
    /\ SumLen(Wire) = Len(Body)
    /\ \A i \in 1..Len(Wire) :
           Wire[i].packet[1] % 16 = file.configs[Wire[i].fch_id].format_bits

\* bytes left at the stream position
Avail == Len(file.bytes) - stream_pos

\* the channel in the word at the stream position (when Avail >= 4)
NextChannel == LeadChannel(SubSeq(file.bytes, stream_pos + 1, stream_pos + 4))

\* the records the buffer of channel ch holds when the first n packets of
\* the wire were deposited
RECURSIVE Routed(_, _, _)
Routed(ps, n, ch) ==
    IF n = 0 THEN <<>>
    ELSE IF ps[n].fch_id = ch
         THEN Append(Routed(ps, n - 1, ch), [packet_id |-> n, packet |-> ps[n].packet])
         ELSE Routed(ps, n - 1, ch)

\* =================================================================
\* Properties
\* =================================================================

\* C1: on a valid stream with N packets the first N read_packet() calls
\* after open_stream return True and call N+1 returns False (no error).
C1_FirstNTrueThenFalse ==
    (in_stream = "open" /\ ValidStream /\ last_op = "read_packet") =>
        /\ (calls <= NumPackets => result = "True")
        /\ (calls = NumPackets + 1 => result = "False")

C1_Witness ==
    /\ in_stream = "open" /\ ValidStream /\ last_op = "read_packet"
    /\ NumPackets = 2 /\ calls = 3 /\ result = "False"

\* C2: on a valid stream, when read_packet() has returned False the byte
\* counter equals the length of the stream.
C2_CounterEqualsStreamLength ==
    (ValidStream /\ last_op = "read_packet" /\ result = "False") =>
        n_bytes_read = Len(file.bytes)

C2_Witness ==
    /\ ValidStream /\ last_op = "read_packet" /\ result = "False"
    /\ packet_id = 2 /\ n_bytes_read = file.hdr_len + 12

\* C3: a read_packet() that returns True moves the stream position by
\* 4 * event_length of the channel in the leading word, and hands exactly
\* those bytes to the decoder.
C3_ConsumesConfiguredLength ==
    [][ (last_op' = "read_packet" /\ result' = "True") =>
            /\ Avail >= 4
            /\ NextChannel \in DOMAIN channel_configs
            /\ LET n == 4 * channel_configs[NextChannel].event_length
               IN  /\ stream_pos' = stream_pos + n
                   /\ packet' = SubSeq(file.bytes, stream_pos + 1, stream_pos + n)
                   /\ Len(packet') = n
                   /\ decoder_calls' # <<>>
                   /\ decoder_calls'[Len(decoder_calls')].packet = packet'
      ]_vars

C3_Witness ==
    /\ last_op = "read_packet" /\ result = "True"
    /\ packet_id = 2 /\ Len(packet) = 8 /\ stream_pos = position + 8

\* C4: a leading word whose channel has no configuration makes read_packet()
\* raise UnknownChannel; the decoder is not called and no buffer changes.
C4_UnknownChannel ==
    [][ ( /\ last_op' = "read_packet"
          /\ in_stream = "open"
          /\ Avail >= 4
          /\ NextChannel \notin DOMAIN channel_configs ) =>
            /\ result' = "UnknownChannel"
            /\ UNCHANGED <<event_rbkd, decoder_calls>>
      ]_vars

C4_Witness ==
    /\ last_op = "read_packet" /\ result = "UnknownChannel"
    /\ packet_id = 1 /\ fch_id = 257 /\ Len(decoder_calls) = 1

\* C5: with at least 4 bytes but less than the configured packet length
\* left, read_packet() raises TruncatedPacket; the decoder is not called
\* and no buffer changes.
C5_TruncatedPacket ==
    [][ ( /\ last_op' = "read_packet"
          /\ in_stream = "open"
          /\ Avail >= 4
          /\ NextChannel \in DOMAIN channel_configs
          /\ Avail < 4 * channel_configs[NextChannel].event_length ) =>
            /\ result' = "TruncatedPacket"
            /\ UNCHANGED <<event_rbkd, decoder_calls>>
      ]_vars

C5_Witness ==
    /\ last_op = "read_packet" /\ result = "TruncatedPacket"
    /\ packet_id = 1 /\ Len(packet) \in 4..7 /\ Len(decoder_calls) = 1

\* C6: read_packet() returns False exactly when fewer than 4 bytes are left
\* at the packet boundary of an open stream, and raises nothing then.
C6_FalseIffFewerThanFour ==
    [][ (last_op' = "read_packet") =>
            (result' = "False" <=> (in_stream = "open" /\ Avail < 4))
      ]_vars

C6_Witness ==
    /\ last_op = "read_packet" /\ result = "False"
    /\ packet_id = 1 /\ Len(data1) = 2

\* C7: after a read_packet() call has raised, every further read_packet()
\* call raises too (returns neither True nor False, deposits nothing) until
\* the stream is opened again.
C7_ErrorStateRejectsReads ==
    [][ (last_op' = "read_packet" /\ fatal) =>
            /\ result' \notin {"True", "False"}
            /\ UNCHANGED event_rbkd
      ]_vars

\* C8 as stated: in every outcome of the peek the stream position after the
\* peek step is the position recorded before it.
C8_PeekNeverAdvances ==
    (last_op = "read_packet" /\ result # "NoStreamOpen") => peek_pos = position

\* C8: when the peek read a full word the stream is back at the recorded
\* position after the peek step and the packet read starts with the same 4
\* bytes; on a short read there is no rewind and the stream is left at the
\* end of the file.
C8_PeekRewindsFullWord ==
    (last_op = "read_packet" /\ result # "NoStreamOpen") =>
        IF Len(file.bytes) - position >= 4
        THEN /\ peek_pos = position
             /\ Len(data1) = 4
             /\ (result \in {"True", "TruncatedPacket", "MalformedEvent"}
                    => SubSeq(packet, 1, 4) = data1)
             /\ (result = "UnknownChannel" => stream_pos = position)
        ELSE /\ peek_pos = Len(file.bytes)
             /\ stream_pos = Len(file.bytes)
             /\ result = "False"

C8_Witness ==
    /\ last_op = "read_packet" /\ result = "True"
    /\ Len(data1) = 4 /\ peek_pos = position /\ position > file.hdr_len

\* C9: packet_id and n_bytes_read decrease only in an open_stream, which
\* sets them to 0 and the header length; a read_packet() that returns True
\* adds 1 and the packet length, one that returns False changes neither.
C9_CountersMonotone ==
    [][ /\ (~(last_op' = "open_stream" /\ in_stream = "None")) =>
               (packet_id' >= packet_id /\ n_bytes_read' >= n_bytes_read)
        /\ (last_op' = "open_stream" /\ result' = "Opened") =>
               (packet_id' = 0 /\ n_bytes_read' = file.hdr_len)
        /\ (last_op' = "read_packet" /\ result' = "True") =>
               /\ packet_id' = packet_id + 1
               /\ n_bytes_read' = n_bytes_read + (stream_pos' - stream_pos)
               /\ stream_pos' - stream_pos = Len(packet')
        /\ (last_op' = "read_packet" /\ result' = "False") =>
               UNCHANGED <<packet_id, n_bytes_read>>
      ]_vars

C9_Witness ==
    /\ last_op = "read_packet" /\ result = "True"
    /\ packet_id = 2 /\ n_bytes_read = file.hdr_len + 12

\* C10: while no call has raised, the decoder was handed the packets of the
\* wire in wire order with packet_id 1, 2, ..., and the buffer of each
\* channel holds the packets of that channel in that order.
C10_RoutedInWireOrder ==
    (in_stream = "open" /\ file.hdr_ok /\ ~fatal) =>
        /\ packet_id <= NumPackets
        /\ decoder_calls = [i \in 1..packet_id |->
               [packet_id |-> i, fch_id |-> Wire[i].fch_id, packet |-> Wire[i].packet]]
        /\ \A ch \in DOMAIN event_rbkd : event_rbkd[ch] = Routed(Wire, packet_id, ch)

C10_Witness ==
    /\ in_stream = "open" /\ file.hdr_ok /\ ~fatal
    /\ packet_id = 3
    /\ decoder_calls[1].fch_id = 1 /\ decoder_calls[2].fch_id = 257
    /\ decoder_calls[3].fch_id = 1
    /\ Len(event_rbkd[1]) = 2 /\ Len(event_rbkd[257]) = 1

\* C11 as stated: the value read_packet() returns is the aggregated
\* buffer-full flag.
C11_ReturnsBufferFull ==
    (last_op = "read_packet" /\ result \in {"True", "False"}) =>
        (result = "True" <=> any_full)

\* C11: read_packet() returns True whenever it read a whole packet and the
\* decoder accepted it, whether or not a buffer is full; the buffer-full
\* indication is kept in any_full and is not the return value.
C11_ReturnsStillHasData ==
    [][ (last_op' = "read_packet" /\ result' \in {"True", "False"}) =>
            /\ result' = "True" <=> Avail >= 4
            /\ result' = "True" =>
                   /\ Len(decoder_calls') = Len(decoder_calls) + 1
                   /\ (Len(event_rbkd'[fch_id']) >= buffer_size => any_full')
      ]_vars

C11_Witness ==
    /\ last_op = "read_packet" /\ result = "True"
    /\ ~any_full /\ Len(event_rbkd[fch_id]) = 1 /\ buffer_size = 2

\* C12: the channel id looked up is bits 4-15 of the leading word: it lies
\* in 0..4095 and is fixed by the high nibble of byte 0 and by byte 1 alone,
\* so packets that agree there were given the same channel.
C12_ChannelIdBits ==
    /\ (last_op = "read_packet" /\ result # "NoStreamOpen" /\ Len(data1) = 4) =>
           /\ fch_id \in 0..4095
           /\ fch_id = (data1[1] \div 16) + 16 * data1[2]
    /\ \A i, j \in 1..Len(decoder_calls) :
           ( /\ decoder_calls[i].packet[1] \div 16 = decoder_calls[j].packet[1] \div 16
             /\ decoder_calls[i].packet[2] = decoder_calls[j].packet[2] )
           => decoder_calls[i].fch_id = decoder_calls[j].fch_id

C12_Witness ==
    /\ last_op = "read_packet" /\ data1 = <<16, 16, 1, 0>> /\ fch_id = 257
    /\ Len(decoder_calls) = 3
    /\ decoder_calls[1].packet[1] = 16 /\ decoder_calls[2].packet[1] = 17
    /\ decoder_calls[1].fch_id = 1 /\ decoder_calls[2].fch_id = 1

\* C13: with 1, 2 or 3 bytes left at a packet boundary read_packet() raises
\* TruncatedPacket.
C13_PartialWordIsTruncated ==
    [][ ( /\ last_op' = "read_packet"
          /\ in_stream = "open" /\ file.hdr_ok
          /\ Avail \in 1..3 ) =>
            result' = "TruncatedPacket"
      ]_vars

\* C14: open_stream on an open stream raises and changes nothing;
\* close_stream and read_packet without a stream raise; close_stream on an
\* open stream releases it, so that the next open_stream is not refused and
\* the next close_stream raises.
C14_LifecycleGuards ==
    [][ /\ (last_op' = "open_stream" /\ in_stream = "open") =>
               /\ result' = "AlreadyOpen"
               /\ UNCHANGED <<in_stream, stream_pos, packet_id, n_bytes_read>>
        /\ (last_op' = "open_stream" /\ in_stream = "None") =>
               (result' # "AlreadyOpen" /\ in_stream' = "open")
        /\ (last_op' = "close_stream" /\ in_stream = "None") =>
               (result' = "NotOpen" /\ in_stream' = "None")
        /\ (last_op' = "close_stream" /\ in_stream = "open") =>
               (result' = "Closed" /\ in_stream' = "None")
        /\ (last_op' = "read_packet" /\ in_stream = "None") =>
               (result' = "NoStreamOpen" /\ in_stream' = "None")
        /\ (last_op = "close_stream" /\ last_op' = "close_stream") =>
               result' = "NotOpen"
        /\ (last_op = "close_stream" /\ last_op' = "open_stream") =>
               result' # "AlreadyOpen"
      ]_vars

C14_Witness ==
    /\ last_op = "close_stream" /\ result = "NotOpen"
    /\ in_stream = "None" /\ packet_id = 2

\* C15 as stated: when read_packet() has returned False the streamer holds
\* no open stream any more.
C15_EofClosesStream ==
    (last_op = "read_packet" /\ result = "False") => in_stream = "None"

\* C15: when read_packet() has returned False the streamer still holds the
\* stream: an open_stream that follows is refused, a read_packet that
\* follows returns False again, and only close_stream releases the stream.
C15_EofKeepsStream ==
    [][ (last_op = "read_packet" /\ result = "False") =>
            /\ in_stream = "open"
            /\ last_op' = "open_stream" =>
                   (result' = "AlreadyOpen" /\ in_stream' = "open")
            /\ last_op' = "read_packet" => result' = "False"
            /\ last_op' = "close_stream" =>
                   (result' = "Closed" /\ in_stream' = "None")
      ]_vars

C15_Witness ==
    /\ last_op = "open_stream" /\ result = "AlreadyOpen"
    /\ in_stream = "open" /\ packet_id = 2
    /\ stream_pos = Len(file.bytes) /\ calls = 3

\* C16: after an open_stream whose header did not parse, read_packet()
\* is refused: it returns neither True nor False and deposits nothing.
C16_HeaderFailureRejectsReads ==
    [][ (last_op' = "read_packet" /\ in_stream = "open" /\ ~file.hdr_ok) =>
            /\ result' \notin {"True", "False"}
            /\ UNCHANGED event_rbkd
      ]_vars

\* C17 as stated: a read_packet() call either returns True with one record
\* deposited and the counters advanced, or leaves packet_id, n_bytes_read,
\* any_full and the buffers unchanged.
C17_AllOrNothing ==
    [][ (last_op' = "read_packet") =>
            \/ /\ result' = "True"
               /\ packet_id' = packet_id + 1
               /\ n_bytes_read' = n_bytes_read + Len(packet')
               /\ event_rbkd' = [event_rbkd EXCEPT ![fch_id'] =
                      Append(@, [packet_id |-> packet_id', packet |-> packet'])]
            \/ /\ result' # "True"
               /\ UNCHANGED <<packet_id, n_bytes_read, any_full, event_rbkd>>
      ]_vars

\* C17: a read_packet() call either returns True with one record deposited
\* and the counters advanced, or raises MalformedEvent from the decoder with
\* the counters already advanced for that packet but the buffers and
\* any_full unchanged, or ends otherwise with counters, any_full and
\* buffers unchanged.
C17_CountersBeforeDecode ==
    [][ (last_op' = "read_packet") =>
            \/ /\ result' = "True"
               /\ packet_id' = packet_id + 1
               /\ n_bytes_read' = n_bytes_read + Len(packet')
               /\ event_rbkd' = [event_rbkd EXCEPT ![fch_id'] =
                      Append(@, [packet_id |-> packet_id', packet |-> packet'])]
            \/ /\ result' = "MalformedEvent"
               /\ packet_id' = packet_id + 1
               /\ n_bytes_read' = n_bytes_read + Len(packet')
               /\ UNCHANGED <<any_full, event_rbkd>>
            \/ /\ result' \notin {"True", "MalformedEvent"}
               /\ UNCHANGED <<packet_id, n_bytes_read, any_full, event_rbkd>>
      ]_vars

C17_Witness ==
    /\ last_op = "read_packet" /\ result = "MalformedEvent"
    /\ packet_id = 2 /\ Len(decoder_calls) = 2
    /\ Len(event_rbkd[1]) = 1 /\ n_bytes_read = stream_pos

\* the driver loop is over
LoopDone ==
    \/ (last_op = "open_stream" /\ result = "MalformedHeader")
    \/ (last_op = "read_packet" /\ result # "True")

C19_CounterIsPosition ==
    ( \/ (last_op = "open_stream" /\ result = "Opened")
      \/ (last_op = "read_packet" /\ result = "True") ) =>
        n_bytes_read = stream_pos

C19_Witness ==
    /\ last_op = "read_packet" /\ result = "True"
    /\ packet_id = 2 /\ n_bytes_read = stream_pos
    /\ stream_pos = file.hdr_len + 12

\* C20: a read_packet() that returns True leaves any_full at its old value
\* or-ed with the full indication of the buffer just written; any other
\* outcome leaves any_full alone; no read_packet() resets it.
C20_AnyFullSticky ==
    [][ (last_op' = "read_packet") =>
            /\ IF result' = "True"
               THEN any_full' = (any_full \/ Len(event_rbkd'[fch_id']) >= buffer_size)
               ELSE any_full' = any_full
            /\ any_full => any_full'
      ]_vars

C20_Witness ==
    /\ last_op = "read_packet" /\ result = "True" /\ any_full
    /\ Len(event_rbkd[fch_id]) < buffer_size

====
